---- MODULE Spec2Model ----
(***************************************************************************)
(* Model of the M5 forecasting data pipeline:                              *)
(*   m5_forecasting/data_processor.py  DataProcessor                       *)
(*   m5_forecasting/utils.py           DataChecker                         *)
(* A DataFrame is a sequence of records (row order and duplicate rows are  *)
(* kept).  Columns that no stage reads after creating them (y, dept_id,    *)
(* cat_id, state_id, sell_price, event names and the derived time          *)
(* features) are carried through by the code unchanged and are left out of *)
(* the rows.  A date is a day number, a price week is a week number.       *)
(***************************************************************************)
EXTENDS Integers, Sequences, FiniteSets, TLC

VARIABLES
    sales_data,          \* self.sales_data: [stage, rows, date_columns]
    calendar,            \* self.calendar: sequence of calendar rows
    sell_prices,         \* self.sell_prices: sequence of price rows
    horizon,             \* self.horizon
    malformed,           \* which input (if any) lacks what a stage needs
    processor,           \* self.processor: None or Some(table)
    train_df,            \* self.train_df: None or Some(table)
    test_df,             \* self.test_df: None or Some(table)
    original_row_count,  \* None or Some(n)
    filtered_row_count,  \* None or Some(n)
    enriched,            \* history: the table filter_before_release received
    completed,           \* history: some process_data call ran to its end
    last,                \* history: the last call and how it ended
    gaps                 \* history: last gaps_in_date_check call and outcome

vars == <<sales_data, calendar, sell_prices, horizon, malformed, processor,
          train_df, test_df, original_row_count, filtered_row_count,
          enriched, completed, last, gaps>>

----------------------------------------------------------------------------
(* Bounds of the model *)
MaxSeries == 2
MaxDays == 3
MaxCalendar == 3
MaxDate == 3
MaxWeek == 2
MaxPrices == 2
MaxHorizon == 2

(* A null cell (NaN / NaT), as a left merge leaves it *)
NaN == -1

(* Python's None and a present value *)
None == <<>>
Some(x) == <<x>>
Val(o) == o[1]

Items == 1..MaxSeries
Stores == {1}
Dates == 1..MaxDate
Weeks == 1..MaxWeek
EventTypes == {NaN, 1}
Malformations == {"none", "sales_data", "calendar", "sell_prices", "ds"}

----------------------------------------------------------------------------
(* Sequence helpers *)
RECURSIVE Concat(_)
Concat(ss) == IF Len(ss) = 0 THEN <<>> ELSE Head(ss) \o Concat(Tail(ss))

Min(a, b) == IF a < b THEN a ELSE b
Max(a, b) == IF a > b THEN a ELSE b

SetMin(S) == CHOOSE x \in S : \A y \in S : x <= y
SetMax(S) == CHOOSE x \in S : \A y \in S : x >= y

(* Sequences over S of length lo..hi *)
SeqsOf(S, lo, hi) == UNION {[1..n -> S] : n \in lo..hi}

(* Sequences over S without repetition, of length lo..hi *)
InjSeqsOf(S, lo, hi) ==
    {s \in SeqsOf(S, lo, hi) : \A i, j \in 1..Len(s) : i # j => s[i] # s[j]}

(* DataFrame.merge(right, on=on, how="left") where `cols` are the columns of
   `right` besides the keys: left order kept; an unmatched left row is kept
   once with nulls in `cols`, a left row with k matches appears k times. *)
LeftMerge(left, right, on, cols) ==
    Concat([i \in 1..Len(left) |->
        LET m == SelectSeq(right, LAMBDA r : \A c \in on : r[c] = left[i][c])
        IN  IF Len(m) = 0
            THEN <<[c \in cols |-> NaN] @@ left[i]>>
            ELSE [j \in 1..Len(m) |-> [c \in cols |-> m[j][c]] @@ left[i]]])

(* item_id + "_" + store_id: the pair stands for the concatenated string *)
UniqueId(item_id, store_id) == <<item_id, store_id>>

(* Order of the unique_id strings, as groupby sorts its keys *)
UidLess(a, b) == a[1] < b[1] \/ (a[1] = b[1] /\ a[2] < b[2])

RECURSIVE SortedKeys(_)
SortedKeys(S) ==
    IF S = {} THEN <<>>
    ELSE LET k == CHOOSE x \in S : \A y \in S : x = y \/ UidLess(x, y)
         IN  <<k>> \o SortedKeys(S \ {k})

UniqueIds(rows) == {rows[i].unique_id : i \in 1..Len(rows)}
Group(rows, uid) == SelectSeq(rows, LAMBDA r : r.unique_id = uid)

----------------------------------------------------------------------------
(* process_data, stage by stage *)

(* Step 2-3: unique_id, then pd.melt: one block of rows per day column, in
   column order, the wide rows in their order inside each block. *)
Melt(wide) ==
    Concat([k \in 1..Len(wide.date_columns) |->
        [r \in 1..Len(wide.rows) |->
            [unique_id |-> UniqueId(wide.rows[r].item_id, wide.rows[r].store_id),
             item_id   |-> wide.rows[r].item_id,
             store_id  |-> wide.rows[r].store_id,
             ds_id     |-> wide.date_columns[k]]]])

(* fillna(0) *)
FillNa(v) == IF v = NaN THEN 0 ELSE v

(* num_events of one calendar row, from the filled event types *)
NumEvents(event_type_1, event_type_2) ==
    IF event_type_2 # 0 THEN 2
    ELSE IF event_type_1 # 0 THEN 1
    ELSE 0

(* prepare_calendar, the calendar's own columns: ds_id by row position
   (index + 1), event types filled, num_events. *)
PreparedCalendar(cal) ==
    [i \in 1..Len(cal) |->
        [date         |-> cal[i].date,
         wm_yr_wk     |-> cal[i].wm_yr_wk,
         event_type_1 |-> FillNa(cal[i].event_type_1),
         event_type_2 |-> FillNa(cal[i].event_type_2),
         ds_id        |-> i,
         num_events   |-> NumEvents(FillNa(cal[i].event_type_1),
                                    FillNa(cal[i].event_type_2))]]

(* prepare_calendar: calendar[["wm_yr_wk", "date", "ds_id"]] with date
   renamed to ds *)
CalendarMapped(cal) ==
    [i \in 1..Len(cal) |->
        [wm_yr_wk |-> cal[i].wm_yr_wk, ds |-> cal[i].date, ds_id |-> cal[i].ds_id]]

(* prepare_calendar, the two left merges on ds_id *)
MergeCalendar(rows, cal) ==
    LeftMerge(LeftMerge(rows, CalendarMapped(cal), {"ds_id"}, {"wm_yr_wk", "ds"}),
              cal, {"ds_id"}, {"num_events"})

(* add_sell_prices: unique_id on the price table *)
PricesWithUniqueId(prices) ==
    [i \in 1..Len(prices) |->
        [item_id   |-> prices[i].item_id,
         store_id  |-> prices[i].store_id,
         wm_yr_wk  |-> prices[i].wm_yr_wk,
         unique_id |-> UniqueId(prices[i].item_id, prices[i].store_id)]]

(* add_sell_prices: left merge on (unique_id, wm_yr_wk); the merged-in
   column, sell_price, is not among the modelled columns.  A null week matches
   no price row (the price weeks are never null). *)
AddSellPrices(rows, prices) ==
    LeftMerge(rows, prices, {"unique_id", "wm_yr_wk"}, {})

(* filter_before_release: release_df, one row per (store_id, item_id) group *)
ReleaseDf(prices) ==
    LET keys == SortedKeys({UniqueId(prices[i].item_id, prices[i].store_id) :
                            i \in 1..Len(prices)})
    IN  [k \in 1..Len(keys) |->
            [unique_id |-> keys[k],
             release   |-> SetMin({prices[i].wm_yr_wk : i \in
                              {j \in 1..Len(prices) :
                                 UniqueId(prices[j].item_id, prices[j].store_id)
                                   = keys[k]}})]]

(* wm_yr_wk >= release as pandas compares: False when either side is null *)
KeptByRelease(wm_yr_wk, release) ==
    wm_yr_wk # NaN /\ release # NaN /\ wm_yr_wk >= release

(* filter_before_release: left merge of release, then the boolean mask *)
FilterBeforeRelease(rows, prices) ==
    SelectSeq(LeftMerge(rows, ReleaseDf(prices), {"unique_id"}, {"release"}),
              LAMBDA r : KeptByRelease(r.wm_yr_wk, r.release))

(* finalize_dataset: drop ds_id, wm_yr_wk, release; fixed column order *)
FinalizeDataset(rows) ==
    [i \in 1..Len(rows) |->
        [unique_id  |-> rows[i].unique_id,
         ds         |-> rows[i].ds,
         num_events |-> rows[i].num_events,
         store_id   |-> rows[i].store_id]]

----------------------------------------------------------------------------
(* process_data as a whole.  The result names how the call ended ("done" or
   the exception raised) and the attribute values it leaves behind. *)

Long(rows) == [stage |-> "long", rows |-> rows, date_columns |-> <<>>]
Final(rows) == [stage |-> "final", rows |-> rows, date_columns |-> <<>>]

(* The run up to the exception at `ended`, leaving sales_data = sd etc. *)
Stopped(ended, sd, cal, sp, orc) ==
    [ended |-> ended, sales_data |-> sd, calendar |-> cal, sell_prices |-> sp,
     original_row_count |-> orc, filtered_row_count |-> filtered_row_count,
     enriched |-> enriched]

(* Line 87 alone: ds_id is assigned before the event columns are read *)
CalendarWithDsId(cal) ==
    [i \in 1..Len(cal) |->
        [date         |-> cal[i].date,
         wm_yr_wk     |-> cal[i].wm_yr_wk,
         event_type_1 |-> cal[i].event_type_1,
         event_type_2 |-> cal[i].event_type_2,
         ds_id        |-> i]]

(* Steps 4-7, entered with the melted table *)
StagesAfterMelt(melted) ==
    LET orc     == Some(Len(melted))
        cal     == PreparedCalendar(calendar)
        merged  == MergeCalendar(melted, cal)
        sp      == PricesWithUniqueId(sell_prices)
        priced  == AddSellPrices(merged, sp)
        kept    == FilterBeforeRelease(priced, sp)
        final   == FinalizeDataset(kept)
    IN  IF malformed = "calendar"
        THEN Stopped("KeyError", Long(melted), CalendarWithDsId(calendar),
                     sell_prices, orc)
        ELSE IF malformed = "sell_prices"
        THEN Stopped("KeyError", Long(merged), cal, sell_prices, orc)
        ELSE IF malformed = "ds" /\ \E i \in 1..Len(priced) : priced[i].ds # NaN
        THEN Stopped("ValueError", Long(priced), cal, sp, orc)
        ELSE [ended |-> "done", sales_data |-> Final(final), calendar |-> cal,
              sell_prices |-> sp, original_row_count |-> orc,
              filtered_row_count |-> Some(Len(kept)), enriched |-> Some(priced)]

(* process_data.  melt_empties: what pd.melt does when sales_data was already
   melted by an earlier call that failed part-way ("y" is already a column and
   no d_ column is left): pandas 2 raises ValueError, pandas 1 warns and
   returns a table without rows. *)
ProcessRun(melt_empties) ==
    IF sales_data.stage = "final" \/ malformed = "sales_data"
    THEN Stopped("KeyError", sales_data, calendar, sell_prices, original_row_count)
    ELSE IF sales_data.stage = "long"
    THEN IF melt_empties
         THEN StagesAfterMelt(<<>>)
         ELSE Stopped("ValueError", sales_data, calendar, sell_prices,
                      original_row_count)
    ELSE StagesAfterMelt(Melt(sales_data))

(* Mutant: self.processor assigned before the stages have all run *)
ProcessorAssignedEarly(ended, table, old) == Some(table)

(* Line 82: self.processor = self.sales_data, reached only when nothing raised *)
ProcessorAssigned(ended, table, old) ==
    IF ended = "done" THEN Some(table) ELSE old

ProcessData ==
    \E melt_empties \in BOOLEAN :
        LET run == ProcessRun(melt_empties)
        IN  /\ sales_data' = run.sales_data
            /\ calendar' = run.calendar
            /\ sell_prices' = run.sell_prices
            /\ original_row_count' = run.original_row_count
            /\ filtered_row_count' = run.filtered_row_count
            /\ enriched' = run.enriched
            /\ processor' = ProcessorAssigned(run.ended, run.sales_data.rows,
                                              processor)
            /\ completed' = (completed \/ run.ended = "done")
            /\ last' = [op |-> "process_data", ended |-> run.ended]
            /\ UNCHANGED <<horizon, malformed, train_df, test_df, gaps>>

----------------------------------------------------------------------------
(* split_data *)

(* A Python slice bound i on a sequence of length n: a negative i counts from
   the end, and -0 is 0. *)
SliceBound(i, n) == IF i < 0 THEN Max(n + i, 0) ELSE Min(i, n)

(* group.iloc[:-horizon] *)
ILocHead(group, h) == SubSeq(group, 1, SliceBound(-h, Len(group)))

(* group.iloc[-horizon:] *)
ILocTail(group, h) ==
    SubSeq(group, SliceBound(-h, Len(group)) + 1, Len(group))

(* The groups of groupby("unique_id"): sorted keys, rows in table order *)
Groups(table) ==
    LET keys == SortedKeys(UniqueIds(table))
    IN  [k \in 1..Len(keys) |-> Group(table, keys[k])]

(* train_list after the loop *)
TrainList(table, h) ==
    LET g == Groups(table)
    IN  [k \in 1..Len(g) |->
            IF Len(g[k]) > h THEN ILocHead(g[k], h) ELSE g[k]]

(* test_list after the loop: only the groups longer than horizon append *)
TestList(table, h) ==
    LET g == SelectSeq(Groups(table), LAMBDA grp : Len(grp) > h)
    IN  [k \in 1..Len(g) |-> ILocTail(g[k], h)]

(* split_data.  pd.concat raises ValueError on an empty list; the train
   concat runs, and assigns train_df, before the test concat. *)
SplitRun ==
    IF processor = None
    THEN [ended |-> "ValueError", train_df |-> train_df, test_df |-> test_df]
    ELSE LET train_list == TrainList(Val(processor), horizon)
             test_list  == TestList(Val(processor), horizon)
         IN  IF Len(train_list) = 0
             THEN [ended |-> "ValueError", train_df |-> train_df,
                   test_df |-> test_df]
             ELSE IF Len(test_list) = 0
             THEN [ended |-> "ValueError", train_df |-> Some(Concat(train_list)),
                   test_df |-> test_df]
             ELSE [ended |-> "returned", train_df |-> Some(Concat(train_list)),
                   test_df |-> Some(Concat(test_list))]

SplitData ==
    LET run == SplitRun
    IN  /\ train_df' = run.train_df
        /\ test_df' = run.test_df
        /\ last' = [op |-> "split_data", ended |-> run.ended]
        /\ UNCHANGED <<sales_data, calendar, sell_prices, horizon, malformed,
                       processor, original_row_count, filtered_row_count,
                       enriched, completed, gaps>>

----------------------------------------------------------------------------
(* DataChecker.gaps_in_date_check *)

DatesOf(df) == {df[i].ds : i \in {j \in 1..Len(df) : df[j].ds # NaN}}

RECURSIVE SortedDates(_)
SortedDates(S) ==
    IF S = {} THEN <<>>
    ELSE <<SetMin(S)>> \o SortedDates(S \ {SetMin(S)})

(* all_dates: pd.date_range(df.ds.min(), df.ds.max()) over the whole table *)
AllDates(df) == SetMin(DatesOf(df))..SetMax(DatesOf(df))

(* The dates of all_dates that the series uid has no row for: the left_only
   rows of the merge of all_combinations with df *)
MissingDates(df, uid) ==
    {d \in AllDates(df) : ~ \E i \in 1..Len(df) :
                               df[i].unique_id = uid /\ df[i].ds = d}

(* missing.groupby("unique_id")["ds"].apply(... tolist()): one list of dates
   per series that has a left_only row *)
MissingSeries(df) ==
    LET keys == SelectSeq(SortedKeys(UniqueIds(df)),
                          LAMBDA uid : MissingDates(df, uid) # {})
    IN  [k \in 1..Len(keys) |->
            [unique_id |-> keys[k],
             dates     |-> SortedDates(MissingDates(df, keys[k]))]]

(* "No missing timestamp gaps found in any time series." *)
NoGapsFound == <<>>

(* "\n".join(missing_series): the items are lists, not strings, so str.join
   raises TypeError on the first item. *)
JoinLines(items) ==
    IF Len(items) > 0
    THEN [ended |-> "TypeError", value |-> None]
    ELSE [ended |-> "returned", value |-> Some(<<>>)]

(* gaps_in_date_check(df).  On a table without a date, min() is NaT and
   pd.date_range raises ValueError. *)
GapsRun(df) ==
    IF DatesOf(df) = {}
    THEN [ended |-> "ValueError", value |-> None]
    ELSE IF Len(MissingSeries(df)) > 0
    THEN JoinLines(MissingSeries(df))
    ELSE [ended |-> "returned", value |-> Some(NoGapsFound)]

(* main.py runs the check on train_df and on test_df *)
GapsInDateCheck ==
    \E which \in {"train", "test"} :
        LET df == IF which = "train" THEN train_df ELSE test_df
        IN  /\ df # None
            /\ gaps' = Some([table |-> Val(df), ended |-> GapsRun(Val(df)).ended,
                             value |-> GapsRun(Val(df)).value])
            /\ last' = [op |-> "gaps_in_date_check",
                        ended |-> GapsRun(Val(df)).ended]
            /\ UNCHANGED <<sales_data, calendar, sell_prices, horizon,
                           malformed, processor, train_df, test_df,
                           original_row_count, filtered_row_count, enriched,
                           completed>>

----------------------------------------------------------------------------
(* Construction: the three tables as read from the CSV files *)

WideSales(items, ndays) ==
    [stage |-> "wide",
     rows |-> [i \in 1..Len(items) |-> [item_id |-> items[i], store_id |-> 1]],
     date_columns |-> [k \in 1..ndays |-> k]]

CalendarRows(dates, weeks, ev1, ev2) ==
    [i \in 1..Len(dates) |->
        [date |-> dates[i], wm_yr_wk |-> weeks[i],
         event_type_1 |-> ev1[i], event_type_2 |-> ev2[i]]]

PriceRows == [item_id : Items, store_id : Stores, wm_yr_wk : Weeks]

(* __init__: everything a call sets later starts as None *)
Constructed ==
    /\ processor = None
    /\ train_df = None
    /\ test_df = None
    /\ original_row_count = None
    /\ filtered_row_count = None
    /\ enriched = None
    /\ completed = FALSE
    /\ last = [op |-> "__init__", ended |-> "returned"]
    /\ gaps = None

(* Well-formed tables, no events: series 1..n, day columns d_1..d_ndays (more
   or fewer than the calendar has rows), calendar dates in any order, price
   weeks that never decrease down the calendar, price rows of any content
   (repeated keys and series without a price included) *)
Init ==
    /\ Constructed
    /\ malformed = "none"
    /\ horizon \in 0..MaxHorizon
    /\ \E n \in 1..MaxSeries, ndays \in 1..MaxDays :
           sales_data = WideSales([i \in 1..n |-> i], ndays)
    /\ \E dates \in InjSeqsOf(Dates, 1, MaxCalendar) :
       \E weeks \in {w \in [1..Len(dates) -> Weeks] :
                       \A i, j \in 1..Len(dates) : i < j => w[i] <= w[j]} :
           calendar = CalendarRows(dates, weeks,
                                   [i \in 1..Len(dates) |-> NaN],
                                   [i \in 1..Len(dates) |-> NaN])
    /\ sell_prices \in SeqsOf(PriceRows, 0, MaxPrices)

(* Calendars with any event columns, one series *)
InitEvents ==
    /\ Constructed
    /\ malformed = "none"
    /\ horizon \in 0..MaxHorizon
    /\ \E n \in 1..MaxCalendar :
       \E ev1 \in [1..n -> EventTypes], ev2 \in [1..n -> EventTypes] :
           /\ sales_data = WideSales(<<1>>, n)
           /\ calendar = CalendarRows([i \in 1..n |-> i], [i \in 1..n |-> 1],
                                      ev1, ev2)
    /\ sell_prices \in SeqsOf(PriceRows, 0, 1)

(* Tables of which one may lack a column or hold an unparsable date *)
InitCalls ==
    /\ Constructed
    /\ malformed \in Malformations
    /\ horizon \in 0..MaxHorizon
    /\ \E n \in 1..MaxSeries, ndays \in 1..MaxDays :
           sales_data = WideSales([i \in 1..n |-> i], ndays)
    /\ \E n \in 1..MaxCalendar :
           calendar = CalendarRows([i \in 1..n |-> i], [i \in 1..n |-> 1],
                                   [i \in 1..n |-> NaN], [i \in 1..n |-> NaN])
    /\ sell_prices \in SeqsOf(PriceRows, 0, 1)

Next == ProcessData \/ SplitData \/ GapsInDateCheck

Spec == Init /\ [][Next]_vars
SpecEvents == InitEvents /\ [][Next]_vars
SpecCalls == InitCalls /\ [][Next]_vars

----------------------------------------------------------------------------
(* Properties *)

Rows(o) == IF o = None THEN <<>> ELSE Val(o)
Count(rows, r) == Cardinality({i \in 1..Len(rows) : rows[i] = r})
RowSet(rows) == {rows[i] : i \in 1..Len(rows)}

AfterSplitOfProcessed == last.op = "split_data" /\ processor # None
SplitReturned == last.op = "split_data" /\ last.ended = "returned"
ProcessDone == last.op = "process_data" /\ last.ended = "done"

(* C1: with horizon = 0, after split_data on a finalized table every row of
   every series is in the training table and the test table has no row. *)
C1_HorizonZeroAllTrain ==
    (AfterSplitOfProcessed /\ horizon = 0) =>
        /\ \A uid \in UniqueIds(Val(processor)) :
               Group(Rows(train_df), uid) = Group(Val(processor), uid)
        /\ Rows(test_df) = <<>>

(* C2: split_data on a finalized table that has a series of at most `horizon`
   rows returns a (train, test) pair, and every such series has all of its
   rows in train and none in test -- also when every series is that short. *)
C2_ShortSeriesAllTrain ==
    (/\ AfterSplitOfProcessed
     /\ \E uid \in UniqueIds(Val(processor)) :
            Len(Group(Val(processor), uid)) <= horizon) =>
        /\ last.ended = "returned"
        /\ \A uid \in UniqueIds(Val(processor)) :
               Len(Group(Val(processor), uid)) <= horizon =>
                   /\ Group(Rows(train_df), uid) = Group(Val(processor), uid)
                   /\ Group(Rows(test_df), uid) = <<>>

(* C3: after split_data, every test row of a series has a date >= every
   training date of that series, whatever the row order of the finalized
   table. *)
C3_TestDatesNotBeforeTrain ==
    SplitReturned =>
        \A i \in 1..Len(Val(test_df)), j \in 1..Len(Val(train_df)) :
            Val(test_df)[i].unique_id = Val(train_df)[j].unique_id =>
                Val(test_df)[i].ds >= Val(train_df)[j].ds

(* C4: after split_data, for every series the train rows and the test rows
   together are exactly the series' finalized rows, each as often as there,
   and a series with more than `horizon` rows has exactly `horizon` test
   rows. *)
C4_PartitionPerSeries ==
    SplitReturned =>
        \A uid \in UniqueIds(Val(processor)) :
            LET all   == Group(Val(processor), uid)
                train == Group(Val(train_df), uid)
                test  == Group(Val(test_df), uid)
            IN  /\ \A r \in RowSet(all) \cup RowSet(train) \cup RowSet(test) :
                       Count(train, r) + Count(test, r) = Count(all, r)
                /\ Len(all) > horizon => Len(test) = horizon

(* C5: after a successful process_data, filtered_row_count <=
   original_row_count, whatever the three tables hold. *)
C5_FilteredAtMostOriginal ==
    ProcessDone => Val(filtered_row_count) <= Val(original_row_count)

(* The release week of a series: the least price week of its price rows,
   null when it has none *)
ReleaseOf(uid) ==
    LET weeks == {sell_prices[i].wm_yr_wk : i \in
                    {j \in 1..Len(sell_prices) :
                       UniqueId(sell_prices[j].item_id, sell_prices[j].store_id)
                         = uid}}
    IN  IF weeks = {} THEN NaN ELSE SetMin(weeks)

StrictlyBeforeRelease(r) ==
    /\ r.wm_yr_wk # NaN
    /\ ReleaseOf(r.unique_id) # NaN
    /\ r.wm_yr_wk < ReleaseOf(r.unique_id)

(* C6: when every series has a release week, the finalized table holds
   exactly the enriched rows whose price week is not strictly before their
   series' release week, a row with a null date included. *)
C6_OnlyRowsBeforeReleaseRemoved ==
    (/\ ProcessDone
     /\ \A uid \in UniqueIds(Val(enriched)) : ReleaseOf(uid) # NaN) =>
        LET kept == SelectSeq(Val(enriched),
                              LAMBDA r : ~ StrictlyBeforeRelease(r))
        IN  Val(processor) =
                [i \in 1..Len(kept) |->
                    [unique_id  |-> kept[i].unique_id,
                     ds         |-> kept[i].ds,
                     num_events |-> kept[i].num_events,
                     store_id   |-> kept[i].store_id]]

(* The dates a series lacks between its own first and last date *)
OwnMissingDates(df, uid) ==
    LET ds == DatesOf(Group(df, uid))
    IN  {d \in SetMin(ds)..SetMax(ds) : d \notin ds}

OwnMissingSeries(df) ==
    LET keys == SelectSeq(SortedKeys(UniqueIds(df)),
                          LAMBDA uid : OwnMissingDates(df, uid) # {})
    IN  [k \in 1..Len(keys) |->
            [unique_id |-> keys[k],
             dates     |-> SortedDates(OwnMissingDates(df, keys[k]))]]

(* C7: on a table with at least one row in which every series is unbroken
   between its own first and last date, gaps_in_date_check reports no gaps. *)
C7_GapsJudgedPerSeries ==
    (/\ gaps # None
     /\ Len(Val(gaps).table) > 0
     /\ Len(OwnMissingSeries(Val(gaps).table)) = 0) =>
        /\ Val(gaps).ended = "returned"
        /\ Val(gaps).value = Some(NoGapsFound)

(* C8: on a table with a series that lacks an interior date,
   gaps_in_date_check returns (does not raise) a finding that lists exactly
   the missing dates of each such series. *)
C8_GapsReportedNotRaised ==
    (/\ gaps # None
     /\ Len(OwnMissingSeries(Val(gaps).table)) > 0) =>
        /\ Val(gaps).ended = "returned"
        /\ Val(gaps).value = Some(OwnMissingSeries(Val(gaps).table))

Populated(event_type) == event_type # NaN /\ event_type # 0

(* C9: after prepare_calendar every calendar row has num_events in {0,1,2}:
   2 only when both event slots are populated, 1 iff only the first is, 0
   when neither is. *)
C9_NumEventsCountsSlots ==
    ProcessDone =>
        \A i \in 1..Len(calendar) :
            LET r == calendar[i]
            IN  /\ r.num_events \in {0, 1, 2}
                /\ r.num_events = 2 =>
                       Populated(r.event_type_1) /\ Populated(r.event_type_2)
                /\ r.num_events = 1 <=>
                       Populated(r.event_type_1) /\ ~ Populated(r.event_type_2)
                /\ (~ Populated(r.event_type_1) /\ ~ Populated(r.event_type_2))
                       => r.num_events = 0

(* C10: processor is set only once a process_data call has run all its
   stages, and then both row counts are set; until then train_df and test_df
   stay None and a split_data call raises ValueError; split_data returns
   tables only after a completed process_data call. *)
C10_SplitOnlyAfterCompletedProcess ==
    /\ processor # None =>
           /\ completed
           /\ original_row_count # None
           /\ filtered_row_count # None
    /\ ~ completed => (train_df = None /\ test_df = None)
    /\ (last.op = "split_data" /\ ~ completed) => last.ended = "ValueError"
    /\ SplitReturned => completed

(* A process_data call failed after the melt, then split_data raised *)
C10_Witness ==
    /\ last = [op |-> "split_data", ended |-> "ValueError"]
    /\ ~ completed
    /\ sales_data.stage = "long"
    /\ original_row_count # None
    /\ processor = None
    /\ train_df = None
    /\ test_df = None

====
